---- MODULE Spec2Model ----
(***************************************************************************)
(* The block editor of mongonotes (BlockEditor, TextBlock, TodoBlock,      *)
(* BlockMenu), the note page that owns it (load, debounced auto-save) and  *)
(* the notes API it talks to (GET by id, PUT).                             *)
(*                                                                         *)
(* A JavaScript string is a sequence of one-character strings; positions   *)
(* are 0-based as in the source, so character i of s is s[i + 1].          *)
(* A block's content is a record [shape, text, checked]: shape is the      *)
(* JavaScript typeof of the payload ("string" or "object"); checked is     *)
(* meaningful for the object shape only.                                   *)
(***************************************************************************)
EXTENDS Integers, Sequences, FiniteSets, TLC

\* ------------------------------------------------------------------ bounds
MaxBlocks == 2      \* inserts are taken while the sequence is shorter than this
MaxIds == 3         \* identifiers uuidv4 hands out in one run
MaxText == 5        \* a key is taken in a textarea while its value fits in this
MaxTyped == 0       \* a stray character is taken while the field is shorter
MaxTicks == 4       \* the clock stops after this many steps of TimeStep
MaxLoadLen == 3     \* a stored string content is at most this long

\* --------------------------------------------------------------- constants
TAB_SIZE == 2
SaveDelay == 1000
FocusDelay == 10
TimeStep == 500     \* granularity of the clock (ms)

Space == " "
Newline == "\n"
Chars == {Space, "x", Newline}
Slash == "/"

NullId == 0         \* activeBlockId === null
NoIndex == -1       \* findIndex found nothing / targetIndex closed
NoError == "null"   \* error === null
NoTimer == 0        \* saveTimeoutRef.current === null
Absent == "absent"  \* a field a record or a body does not have

VARIABLES
    \* BlockEditor
    blocks, activeBlockId, menuPosition, targetIndex, showBlockTypes,
    nextId, crashed,
    \* the focused textarea
    selStart, selEnd,
    \* NotePage
    note, loading, error, isSaving, editingTitle, saveTimeoutRef,
    \* environment: timers, clock, network, store
    timers, now, inflight, store,
    \* the dashboard (Home)
    home,
    \* history: the debouncer's last request, the PUTs sent, the PUT the
    \* store last applied, the last action, and what the textarea held when
    \* the last key handler read it
    lastSchedule, putLog, applied, lastOp, before

editorVars == <<blocks, activeBlockId, menuPosition, targetIndex,
                showBlockTypes, nextId, crashed>>
selVars == <<selStart, selEnd>>
pageVars == <<note, loading, error, isSaving, editingTitle, saveTimeoutRef>>
envVars == <<timers, now, inflight, store, home>>
histVars == <<lastSchedule, putLog, applied, lastOp, before>>
vars == <<editorVars, selVars, pageVars, envVars, histVars>>

\* ------------------------------------------------- JavaScript string library
Min(a, b) == IF a < b THEN a ELSE b
Max(a, b) == IF a > b THEN a ELSE b
Clamp(i, n) == Max(0, Min(i, n))

\* String.prototype.substring(a, b): clamps both, swaps when a > b
Substring(s, a, b) ==
    LET ca == Clamp(a, Len(s))
        cb == Clamp(b, Len(s))
    IN  SubSeq(s, Min(ca, cb) + 1, Max(ca, cb))

\* String.prototype.substring(a)
SubstringFrom(s, a) == Substring(s, a, Len(s))

\* String.prototype.lastIndexOf(ch, from) for a one-character ch
LastIndexOf(s, ch, from) ==
    LET f == Clamp(from, Len(s) - 1)
        hits == {i \in 0..f : i < Len(s) /\ s[i + 1] = ch}
    IN  IF hits = {} THEN -1 ELSE CHOOSE i \in hits : \A j \in hits : j <= i

IsWhite(c) == c \in {Space, Newline}

\* String.prototype.trimStart()
RECURSIVE TrimStart(_)
TrimStart(s) ==
    IF s # <<>> /\ IsWhite(Head(s)) THEN TrimStart(Tail(s)) ELSE s

\* ' '.repeat(n)
Spaces(n) == [i \in 1..n |-> Space]

\* String.prototype.endsWith(t)
EndsWith(s, t) ==
    Len(s) >= Len(t) /\ SubSeq(s, Len(s) - Len(t) + 1, Len(s)) = t

\* ------------------------------------------------------------------- blocks
Str(s) == [shape |-> "string", text |-> s, checked |-> FALSE]
Obj(s, c) == [shape |-> "object", text |-> s, checked |-> c]
TypeOf(content) == content.shape

Block(id, type, content) == [id |-> id, type |-> type, content |-> content]

\* An array slot that holds no block: a hole of a sparse array, the
\* undefined a spread makes of a hole, the null JSON makes of either.
Hole == [id |-> NullId, type |-> "hole", content |-> Str(<<>>)]
Undefined == [id |-> NullId, type |-> "undefined", content |-> Str(<<>>)]
JsonNull == [id |-> NullId, type |-> "null", content |-> Str(<<>>)]
IsBlock(b) == b.type \notin {"hole", "undefined", "null"}

BlockTypes == {"text", "heading", "todo", "table", "image"}
MenuTypes == {"text", "todo"}

\* ------------------------------------------------------ JavaScript arrays
\* [...a]: a spread reads a hole as undefined
Spread(a) == [i \in DOMAIN a |-> IF a[i] = Hole THEN Undefined ELSE a[i]]

\* a.splice(start, 0, e)
SpliceInsert(a, start, e) ==
    LET st == Clamp(start, Len(a))
    IN  SubSeq(a, 1, st) \o <<e>> \o SubSeq(a, st + 1, Len(a))

\* a.splice(start, 1)
SpliceRemove(a, start) ==
    LET st == Clamp(start, Len(a))
    IN  SubSeq(a, 1, st) \o SubSeq(a, st + 2, Len(a))

\* a[index] = e: a write past the end leaves holes behind it
ArraySet(a, index, e) ==
    IF index < Len(a)
    THEN [a EXCEPT ![index + 1] = e]
    ELSE a \o [i \in 1..(index - Len(a)) |-> Hole] \o <<e>>

\* a.findIndex(b => b.id === id): visits holes as undefined, on which
\* reading .id is a TypeError; 0-based, -1 when nothing matches
FindIndexThrows(a, id) ==
    \E i \in DOMAIN a :
        /\ ~IsBlock(a[i])
        /\ \A j \in 1..(i - 1) : a[j].id # id

FindIndex(a, id) ==
    LET hits == {i \in DOMAIN a : IsBlock(a[i]) /\ a[i].id = id}
    IN  IF hits = {} THEN NoIndex
        ELSE (CHOOSE i \in hits : \A j \in hits : i <= j) - 1

\* JSON.stringify of an array writes null for a hole and for undefined;
\* strings, booleans and plain objects are written as they are
JsonStringify(a) == [i \in DOMAIN a |-> IF IsBlock(a[i]) THEN a[i] ELSE JsonNull]

\* JSON.parse of that text
JsonParse(j) == j

\* ------------------------------------------------------------ BlockEditor
\* blocks.map(block => <BlockRenderer key={block.id} .../>): map skips
\* holes; reading .id of undefined or null is a TypeError in render
RenderThrows(a) == \E i \in DOMAIN a : a[i] \in {Undefined, JsonNull}

\* mutant: the initialiser without its default block
InitialBlocksNoDefault(initialBlocks, id) == initialBlocks

\* useState initialiser of blocks
InitialBlocks(initialBlocks, id) ==
    IF Len(initialBlocks) > 0 THEN initialBlocks
    ELSE <<Block(id, "text", Str(<<>>))>>

\* useState initialiser of activeBlockId
InitialActive(bs) == IF Len(bs) > 0 THEN bs[1].id ELSE NullId

\* mutant: the identifier is taken from the position
createBlockIdFromIndex(type, index, id) ==
    CASE type = "text" -> Block(index + 1, type, Str(<<>>))
      [] type = "todo" -> Block(index + 1, type, Obj(<<>>, FALSE))
      [] OTHER -> Block(index + 1, "text", Str(<<>>))

\* mutant: every type is given the string payload
createBlockStringPayload(type, index, id) ==
    CASE type \in {"text", "todo"} -> Block(id, type, Str(<<>>))
      [] OTHER -> Block(id, "text", Str(<<>>))

\* createBlock(type, index), id standing for the uuidv4() it calls
createBlock(type, index, id) ==
    CASE type = "text" -> Block(id, type, Str(<<>>))
      [] type = "todo" -> Block(id, type, Obj(<<>>, FALSE))
      [] OTHER -> Block(id, "text", Str(<<>>))

\* mutant: every block is replaced by the updated one
updateBlockMapAll(prevBlocks, updatedBlock) ==
    [i \in DOMAIN prevBlocks |->
        IF prevBlocks[i] # Hole THEN updatedBlock ELSE prevBlocks[i]]

\* prevBlocks.map(block => block.id === updatedBlock.id ? updatedBlock : block)
updateBlockMap(prevBlocks, updatedBlock) ==
    [i \in DOMAIN prevBlocks |->
        IF prevBlocks[i] # Hole /\ prevBlocks[i].id = updatedBlock.id
        THEN updatedBlock ELSE prevBlocks[i]]

\* mutant: a string content is taken as the todo's text
todoContentKeepsString(block) ==
    IF TypeOf(block.content) = "object" THEN block.content
    ELSE Obj(block.content.text, FALSE)

\* TodoBlock: the content used when block.content is not an object
todoContent(block) ==
    IF TypeOf(block.content) = "object" THEN block.content
    ELSE Obj(<<>>, FALSE)

\* the value a TextBlock's textarea shows
TextValue(block) ==
    IF TypeOf(block.content) = "string" THEN block.content.text ELSE <<>>

\* e.currentTarget.textContent of the element the key event came from:
\* a TodoBlock's <input> has no child nodes, so its textContent is always
\* empty; a TextBlock forwards '/' only when its value is empty
TextContentOf(block) == IF block.type = "todo" THEN <<>> ELSE TextValue(block)

EditorMounted == ~loading /\ error = NoError /\ ~crashed
MenuOpen == menuPosition # "null"

RenderedBlocks == {i \in DOMAIN blocks : IsBlock(blocks[i])}
ActiveIdx == {i \in RenderedBlocks : blocks[i].id = activeBlockId}
ActiveBlock == blocks[CHOOSE i \in ActiveIdx : TRUE]
ActiveIs(type) == ActiveIdx # {} /\ ActiveBlock.type = type

\* where the caret of a block's field is when focus moves into it
CaretOnFocus(block) ==
    IF block.type = "text" THEN Len(TextValue(block)) ELSE 0

\* -------------------------------------------------------------------- Home
\* the dashboard's state: notes (their identifiers), loading, error; route
\* is the page on screen, "/" or the identifier of the note page's note
Root == "/"
Home(route, notes, homeLoading, homeError) ==
    [route |-> route, notes |-> notes, loading |-> homeLoading,
     error |-> homeError]

\* the dashboard right after construction
NewHome == Home(Root, {}, TRUE, NoError)

\* ---------------------------------------------------------------- NotePage
Note(title, content) ==
    [title |-> title, content |-> content, createdAt |-> Absent]
NoSchedule == [at |-> -1, note |-> Note("", <<>>)]

TimerHandles(ts) == {t.handle : t \in ts}
FreshHandle(ts) == CHOOSE h \in 1..(Cardinality(ts) + 1) :
                      /\ h \notin TimerHandles(ts)
                      /\ \A g \in 1..(h - 1) : g \in TimerHandles(ts)

\* clearTimeout(saveTimeoutRef.current) when the ref is set
ClearSaveTimeout(ts, ref) ==
    IF ref # NoTimer THEN {t \in ts : t.handle # ref} ELSE ts

\* mutant: the notification of the editor's mount schedules no save
debouncedSaveNotOnMount(updatedNote) ==
    IF loading
    THEN UNCHANGED <<timers, saveTimeoutRef, lastSchedule>>
    ELSE LET kept == ClearSaveTimeout(timers, saveTimeoutRef)
             h == FreshHandle(kept)
         IN  /\ timers' = kept \cup {[handle |-> h, due |-> now + SaveDelay,
                                      note |-> updatedNote]}
             /\ saveTimeoutRef' = h
             /\ lastSchedule' = [at |-> now, note |-> updatedNote]

\* mutant: the pending timer is not cleared
debouncedSaveNoClear(updatedNote) ==
    LET h == FreshHandle(timers)
    IN  /\ timers' = timers \cup {[handle |-> h, due |-> now + SaveDelay,
                                   note |-> updatedNote]}
        /\ saveTimeoutRef' = h
        /\ lastSchedule' = [at |-> now, note |-> updatedNote]

\* debouncedSave(updatedNote)
debouncedSave(updatedNote) ==
    LET kept == ClearSaveTimeout(timers, saveTimeoutRef)
        h == FreshHandle(kept)
    IN  /\ timers' = kept \cup {[handle |-> h, due |-> now + SaveDelay,
                                 note |-> updatedNote]}
        /\ saveTimeoutRef' = h
        /\ lastSchedule' = [at |-> now, note |-> updatedNote]

\* mutant: the page schedules a save and keeps its own content
handleBlocksChangeKeepsContent(bs) ==
    /\ note' = note
    /\ debouncedSave(note)

\* handleBlocksChange(blocks), run by the editor's effect on [blocks]
handleBlocksChange(bs) ==
    LET updatedNote == [note EXCEPT !.content = bs]
    IN  /\ note' = updatedNote
        /\ debouncedSave(updatedNote)

\* setBlocks(nb) and setActiveBlockId(act) of one handler, the render that
\* follows and, when it commits, the effect that notifies the page
Commit(nb, act, caret) ==
    IF RenderThrows(nb)
    THEN /\ crashed' = TRUE
         /\ UNCHANGED <<blocks, activeBlockId, selVars, note, timers,
                        saveTimeoutRef, lastSchedule>>
    ELSE /\ crashed' = crashed
         /\ blocks' = nb
         /\ activeBlockId' = act
         /\ selStart' = caret
         /\ selEnd' = caret
         /\ handleBlocksChange(nb)

\* a handler that throws before any setState, or changes nothing
NoEdit == UNCHANGED <<blocks, activeBlockId, crashed, selVars, note, timers,
                      saveTimeoutRef, lastSchedule>>

\* ---------------------------------------------------- BlockEditor handlers
\* addBlock(type, index)
addBlock(type, index) ==
    LET newBlock == createBlock(type, index, nextId)
        updatedBlocks == SpliceInsert(Spread(blocks), index + 1, newBlock)
    IN  /\ nextId' = nextId + 1
        /\ showBlockTypes' = FALSE
        /\ Commit(updatedBlocks, newBlock.id, 0)

\* mutant: the active identifier is read at index of the old sequence
ActiveAfterDeleteStale(updatedBlocks, index) == blocks[index + 1].id

\* the identifier deleteBlock(index) makes active
ActiveAfterDelete(updatedBlocks, index) ==
    IF index >= Len(updatedBlocks)
    THEN updatedBlocks[Len(updatedBlocks)].id
    ELSE updatedBlocks[index + 1].id

\* mutant: deleteBlock without its guard on the last block
deleteBlockUnguarded(index, override) ==
    LET updatedBlocks == SpliceRemove(Spread(blocks), index)
        act == IF updatedBlocks = <<>> THEN activeBlockId
               ELSE IF override # NullId THEN override
               ELSE ActiveAfterDelete(updatedBlocks, index)
    IN  Commit(updatedBlocks, act, 0)

\* deleteBlock(index), then setActiveBlockId(override) when the caller
\* (the Backspace branch) sets the active block after it
deleteBlock(index, override) ==
    IF Len(blocks) = 1
    THEN NoEdit
    ELSE LET updatedBlocks == SpliceRemove(Spread(blocks), index)
             act == IF override # NullId THEN override
                    ELSE ActiveAfterDelete(updatedBlocks, index)
             idx == FindIndex(updatedBlocks, act)
             caret == IF idx = NoIndex THEN 0
                      ELSE CaretOnFocus(updatedBlocks[idx + 1])
         IN  Commit(updatedBlocks, act, caret)

\* handleBlockKeyDown, Enter with Shift
KeyDownShiftEnter(blockId) == addBlock("text", FindIndex(blocks, blockId))

\* handleBlockKeyDown, Backspace
KeyDownBackspace(blockId) ==
    IF FindIndexThrows(blocks, blockId)
    THEN NoEdit
    ELSE LET currentIndex == FindIndex(blocks, blockId)
             currentBlock == blocks[currentIndex + 1]
         IN  IF /\ currentBlock.type = "text"
                /\ TypeOf(currentBlock.content) = "string"
                /\ currentBlock.content.text = <<>>
                /\ Len(blocks) > 1
             THEN deleteBlock(currentIndex,
                              IF currentIndex > 0
                              THEN blocks[currentIndex].id ELSE NullId)
             ELSE NoEdit

\* handleBlockKeyDown, '/': TRUE when the menu is to open
SlashOpens(blockId) ==
    LET currentIndex == FindIndex(blocks, blockId)
        b == blocks[currentIndex + 1]
    IN  \/ (b.type = "text" /\ b.content = Str(<<>>))
        \/ TextContentOf(b) = <<>>

\* handleSelectBlockType(type)
handleSelectBlockType(type) ==
    IF targetIndex >= 0
    THEN LET newBlock == createBlock(type, targetIndex, nextId)
             updatedBlocks == ArraySet(Spread(blocks), targetIndex, newBlock)
         IN  /\ nextId' = nextId + 1
             /\ Commit(updatedBlocks, newBlock.id, 0)
    ELSE NoEdit /\ UNCHANGED nextId

\* onClose of the menu
closeMenu ==
    /\ menuPosition' = "null"
    /\ targetIndex' = NoIndex

\* ------------------------------------------------------- TextBlock handlers
\* start of the line the caret is on
LineStart(content, start) == LastIndexOf(content, Newline, start - 1) + 1

\* Tab without Shift: the new value and the caret
TabContent(content, start, end) ==
    Substring(content, 0, start) \o Spaces(TAB_SIZE) \o SubstringFrom(content, end)
TabCaret(start) == start + TAB_SIZE

\* mutant: Shift+Tab takes one leading space at most
ShiftTabRemoveOne(content, start) ==
    LET lineBeforeCursor == Substring(content, LineStart(content, start), start)
    IN  Min(1, Len(lineBeforeCursor) - Len(TrimStart(lineBeforeCursor)))

\* Shift+Tab: the number of leading spaces it takes off the line
ShiftTabRemove(content, start) ==
    LET lineBeforeCursor == Substring(content, LineStart(content, start), start)
    IN  Min(TAB_SIZE, Len(lineBeforeCursor) - Len(TrimStart(lineBeforeCursor)))

ShiftTabContent(content, start) ==
    LET lineStart == LineStart(content, start)
        lineBeforeCursor == Substring(content, lineStart, start)
    IN  Substring(content, 0, lineStart)
        \o SubstringFrom(lineBeforeCursor, ShiftTabRemove(content, start))
        \o SubstringFrom(content, start)

ShiftTabCaret(content, start) ==
    Max(LineStart(content, start), start - ShiftTabRemove(content, start))

\* Backspace with a collapsed caret right after a tab-sized run
BackspaceIsTab(content, start) ==
    LET lineStart == LineStart(content, start)
        beforeCursor == Substring(content, lineStart, start)
    IN  /\ Len(beforeCursor) >= TAB_SIZE
        /\ EndsWith(beforeCursor, Spaces(TAB_SIZE))
        /\ (start - lineStart = TAB_SIZE \/ (start - lineStart) % TAB_SIZE = 0)

\* mutant: the whole run of spaces before the caret is removed
BackspaceTabContentWholeRun(content, start) ==
    Substring(content, 0, LineStart(content, start)) \o SubstringFrom(content, start)

BackspaceTabContent(content, start) ==
    Substring(content, 0, start - TAB_SIZE) \o SubstringFrom(content, start)

\* the browser's own Backspace in a text field
DefaultBackspaceContent(content, start, end) ==
    IF start # end
    THEN Substring(content, 0, start) \o SubstringFrom(content, end)
    ELSE IF start > 0
         THEN Substring(content, 0, start - 1) \o SubstringFrom(content, start)
         ELSE content
DefaultBackspaceCaret(start, end) ==
    IF start # end THEN start ELSE Max(0, start - 1)

\* onChange({...block, content: value}) of a TextBlock, through updateBlock
TextOnChange(value, caret) ==
    Commit(updateBlockMap(blocks, [ActiveBlock EXCEPT !.content = Str(value)]),
           activeBlockId, caret)

\* onChange({...block, content: c}) of a TodoBlock, through updateBlock
TodoOnChange(block, c) ==
    Commit(updateBlockMap(blocks, [block EXCEPT !.content = c]),
           activeBlockId, selStart)

\* ------------------------------------------------------------------- store
NoteId == "a"       \* the identifier in the page's URL
OtherId == "b"      \* the identifier of another note
NoId == ""          \* no identifier given
BadId == "zz"       \* a string that is not the text of an ObjectId
Created == "t0"     \* the createdAt of the stored notes

\* the note page is on screen, the dashboard is not
NoHome == Home(NoteId, {}, FALSE, NoError)

\* a stored note: content is a string (kind "string", str), an array
\* (kind "array", arr), some other value (kind "other") or not there
\* (kind "missing")
NoDoc == [exists |-> FALSE, title |-> "", kind |-> "missing",
          str |-> <<>>, arr |-> <<>>, createdAt |-> Absent]
Doc(title, kind, str, arr) ==
    [exists |-> TRUE, title |-> title, kind |-> kind, str |-> str, arr |-> arr,
     createdAt |-> Created]

\* ObjectId.isValid(id)
ObjectIdIsValid(id) == id \in {NoteId, OtherId}

\* collection.findOne({_id}) / the document a filter {_id} matches
FindOne(st, id) == IF id \in DOMAIN st THEN st[id] ELSE NoDoc

\* mutant: a stored string is dropped
FetchNormalizeDropsString(doc, id) ==
    IF doc.kind # "array"
    THEN <<Block(id, "text", Str(<<>>))>>
    ELSE JsonParse(doc.arr)

\* fetchNote: the content handed to setNote
FetchNormalize(doc, id) ==
    IF doc.kind = "string"
    THEN IF doc.str # <<>>
         THEN <<Block(id, "text", Str(doc.str))>>
         ELSE <<Block(id, "text", Str(<<>>))>>
    ELSE IF doc.kind # "array"
         THEN <<Block(id, "text", Str(<<>>))>>
         ELSE JsonParse(doc.arr)

\* uuidv4 is called while loading: by fetchNote for a content that is not
\* an array, by the editor's initialiser for an empty array
LoadUsesId(doc) == doc.kind # "array" \/ Len(doc.arr) = 0

\* ------------------------------------------------------------ user actions
pageRest == <<loading, error, isSaving, editingTitle>>

\* history of an action that is not a key in a textarea
NoBefore == [op |-> "none", text |-> <<>>, start |-> 0, end |-> 0]
Did(op) == lastOp' = op /\ before' = NoBefore

\* history of a key in a textarea: the value and selection its handler read
\* and the key that came right before it, if one did
TextKeys == {"TabKey", "ShiftTabKey", "BackspaceKey"}
DidKey(op, content) ==
    /\ lastOp' = op
    /\ before' = [op |-> IF lastOp \in TextKeys THEN lastOp ELSE "other",
                  text |-> content, start |-> selStart, end |-> selEnd]
envRest == <<now, inflight, store, home, putLog, applied>>

\* value.substring(0, start) + c + value.substring(end): a typed character
InsertAt(content, start, end, c) ==
    Substring(content, 0, start) \o <<c>> \o SubstringFrom(content, end)

\* GET /api/notes/{id} answers 200 and the page mounts the editor
FetchNoteOk ==
    /\ loading /\ error = NoError
    /\ store[NoteId].exists
    /\ LET doc == store[NoteId]
           noteContent == FetchNormalize(doc, nextId)
           bs == InitialBlocks(noteContent, nextId)
       IN  /\ loading' = FALSE
           /\ nextId' = IF LoadUsesId(doc) THEN nextId + 1 ELSE nextId
           /\ IF RenderThrows(bs)
              THEN /\ crashed' = TRUE
                   /\ note' = [Note(doc.title, noteContent)
                                 EXCEPT !.createdAt = doc.createdAt]
                   /\ UNCHANGED <<blocks, activeBlockId, selVars, timers,
                                  saveTimeoutRef, lastSchedule>>
              ELSE /\ crashed' = FALSE
                   /\ blocks' = bs
                   /\ activeBlockId' = InitialActive(bs)
                   /\ selStart' = IF bs = <<>> THEN 0 ELSE CaretOnFocus(bs[1])
                   /\ selEnd' = IF bs = <<>> THEN 0 ELSE CaretOnFocus(bs[1])
                   /\ LET updatedNote == [Note(doc.title, bs)
                                         EXCEPT !.createdAt = doc.createdAt]
                      IN  /\ note' = updatedNote
                          /\ debouncedSave(updatedNote)
    /\ Did("FetchNoteOk")
    /\ UNCHANGED <<menuPosition, targetIndex, showBlockTypes, error, isSaving,
                   editingTitle, envRest>>

\* Shift+Enter in the focused block
ShiftEnterKey ==
    /\ EditorMounted /\ ActiveIdx # {}
    /\ IF FindIndexThrows(blocks, activeBlockId)
       THEN \* findIndex threw before preventDefault: a textarea takes the
            \* newline, a todo's input ignores it
            /\ IF ActiveIs("text")
               THEN /\ Len(TextValue(ActiveBlock)) < MaxTyped
                    /\ TextOnChange(InsertAt(TextValue(ActiveBlock), selStart,
                                             selEnd, Newline), selStart + 1)
               ELSE NoEdit
            /\ UNCHANGED <<nextId, showBlockTypes>>
       ELSE /\ Len(blocks) < MaxBlocks /\ nextId <= MaxIds
            /\ KeyDownShiftEnter(activeBlockId)
    /\ UNCHANGED <<menuPosition, targetIndex, pageRest, envRest>>
    /\ Did("ShiftEnterKey")

\* Backspace in the focused block
BackspaceKey ==
    /\ EditorMounted /\ ActiveIdx # {}
    /\ IF ActiveIs("text")
       THEN LET content == TextValue(ActiveBlock)
            IN  IF selStart = selEnd /\ BackspaceIsTab(content, selStart)
                THEN TextOnChange(BackspaceTabContent(content, selStart),
                                  selStart - TAB_SIZE)
                ELSE IF selStart = selEnd /\ content = <<>>
                THEN KeyDownBackspace(activeBlockId)
                ELSE IF DefaultBackspaceContent(content, selStart, selEnd) = content
                THEN NoEdit
                ELSE TextOnChange(
                         DefaultBackspaceContent(content, selStart, selEnd),
                         DefaultBackspaceCaret(selStart, selEnd))
       ELSE \* a TodoBlock: handleBlockKeyDown does nothing for a todo,
            \* the input then deletes the character before its caret
            LET c == todoContent(ActiveBlock)
            IN  IF c.text = <<>>
                THEN NoEdit
                ELSE \E p \in 1..Len(c.text) :
                        TodoOnChange(ActiveBlock,
                            [c EXCEPT !.text = SubSeq(c.text, 1, p - 1)
                                               \o SubSeq(c.text, p + 1, Len(c.text))])
    /\ UNCHANGED <<menuPosition, targetIndex, showBlockTypes, nextId,
                   pageRest, envRest>>
    /\ DidKey("BackspaceKey", IF ActiveIs("text") THEN TextValue(ActiveBlock) ELSE <<>>)

\* Tab in the focused TextBlock
TabKey ==
    /\ EditorMounted /\ ActiveIs("text")
    /\ LET content == TextValue(ActiveBlock)
       IN  /\ Len(TabContent(content, selStart, selEnd)) <= MaxText
           /\ TextOnChange(TabContent(content, selStart, selEnd),
                           TabCaret(selStart))
           /\ DidKey("TabKey", content)
    /\ UNCHANGED <<menuPosition, targetIndex, showBlockTypes, nextId,
                   pageRest, envRest>>

\* Shift+Tab in the focused TextBlock
ShiftTabKey ==
    /\ EditorMounted /\ ActiveIs("text")
    /\ LET content == TextValue(ActiveBlock)
       IN  /\ IF ShiftTabRemove(content, selStart) > 0
              THEN /\ Len(ShiftTabContent(content, selStart)) <= MaxText
                   /\ TextOnChange(ShiftTabContent(content, selStart),
                                   ShiftTabCaret(content, selStart))
              ELSE NoEdit
           /\ DidKey("ShiftTabKey", content)
    /\ UNCHANGED <<menuPosition, targetIndex, showBlockTypes, nextId,
                   pageRest, envRest>>

\* a character key (Enter without Shift for the newline) in the focused
\* TextBlock: no branch of handleKeyDown takes it, the textarea inserts it
\* and handleChange reports the new value
TypeChar(c) ==
    /\ EditorMounted /\ ActiveIs("text")
    /\ LET content == TextValue(ActiveBlock)
       IN  /\ Len(InsertAt(content, selStart, selEnd, c)) <= MaxText
           /\ TextOnChange(InsertAt(content, selStart, selEnd, c), selStart + 1)
    /\ Did("TypeChar")
    /\ UNCHANGED <<menuPosition, targetIndex, showBlockTypes, nextId,
                   pageRest, envRest>>

\* '/' in the focused block
SlashKey ==
    /\ EditorMounted /\ ActiveIdx # {}
    /\ LET b == ActiveBlock
           forwarded == b.type = "todo" \/ TextValue(b) = <<>>
           opens == /\ forwarded
                    /\ ~FindIndexThrows(blocks, b.id)
                    /\ SlashOpens(b.id)
       IN  IF opens
           THEN /\ menuPosition' = "pos"
                /\ targetIndex' = FindIndex(blocks, b.id)
                /\ NoEdit
           ELSE \* no preventDefault: the character is typed
                /\ IF b.type = "text"
                   THEN /\ Len(TextValue(b)) < MaxTyped
                        /\ TextOnChange(InsertAt(TextValue(b), selStart, selEnd,
                                                 Slash), selStart + 1)
                   ELSE /\ Len(todoContent(b).text) < MaxTyped
                        /\ TodoOnChange(b, [todoContent(b) EXCEPT
                                            !.text = @ \o <<Slash>>])
                /\ UNCHANGED <<menuPosition, targetIndex>>
    /\ UNCHANGED <<showBlockTypes, nextId, pageRest, envRest>>
    /\ Did("SlashKey")

\* any other edit of the focused TextBlock (typing, paste, cut): handleChange
TextChange(value) ==
    /\ EditorMounted /\ ActiveIs("text")
    /\ value # TextValue(ActiveBlock)
    /\ TextOnChange(value, Len(value))
    /\ Did("TextChange")
    /\ UNCHANGED <<menuPosition, targetIndex, showBlockTypes, nextId,
                   pageRest, envRest>>

\* an edit of the focused TodoBlock's field: handleTextChange
TodoTextChange(value) ==
    /\ EditorMounted /\ ActiveIs("todo")
    /\ value # todoContent(ActiveBlock).text
    /\ TodoOnChange(ActiveBlock, [todoContent(ActiveBlock) EXCEPT !.text = value])
    /\ Did("TodoTextChange")
    /\ UNCHANGED <<menuPosition, targetIndex, showBlockTypes, nextId,
                   pageRest, envRest>>

\* the checkbox of any rendered TodoBlock: handleCheckboxChange
TodoToggle(i) ==
    /\ EditorMounted /\ i \in RenderedBlocks /\ blocks[i].type = "todo"
    /\ TodoOnChange(blocks[i], [todoContent(blocks[i]) EXCEPT
                                !.checked = ~todoContent(blocks[i]).checked])
    /\ Did("TodoToggle")
    /\ UNCHANGED <<menuPosition, targetIndex, showBlockTypes, nextId,
                   pageRest, envRest>>

\* focus moves into another block: onFocus
Focus(i) ==
    /\ EditorMounted /\ i \in RenderedBlocks
    /\ blocks[i].id # activeBlockId
    /\ activeBlockId' = blocks[i].id
    /\ selStart' = CaretOnFocus(blocks[i])
    /\ selEnd' = CaretOnFocus(blocks[i])
    /\ Did("Focus")
    /\ UNCHANGED <<blocks, menuPosition, targetIndex, showBlockTypes, nextId,
                   crashed, pageVars, envVars, lastSchedule, putLog, applied>>

\* the user moves the caret or selects a range in the focused textarea
SetSelection(s, e) ==
    /\ EditorMounted /\ ActiveIs("text")
    /\ 0 <= s /\ s <= e /\ e <= Len(TextValue(ActiveBlock))
    /\ <<s, e>> # <<selStart, selEnd>>
    /\ selStart' = s
    /\ selEnd' = e
    /\ Did("SetSelection")
    /\ UNCHANGED <<editorVars, pageVars, envVars, lastSchedule, putLog, applied>>

\* the delete button of the active block: onDelete
DeleteButton ==
    /\ EditorMounted /\ ActiveIdx # {}
    /\ IF FindIndexThrows(blocks, activeBlockId)
       THEN NoEdit
       ELSE deleteBlock(FindIndex(blocks, activeBlockId), NullId)
    /\ UNCHANGED <<menuPosition, targetIndex, showBlockTypes, nextId,
                   pageRest, envRest>>
    /\ Did("DeleteButton")

\* "Add a block": toggleBlockTypes
ShowToolbar ==
    /\ EditorMounted /\ ~showBlockTypes
    /\ showBlockTypes' = ~showBlockTypes
    /\ Did("ShowToolbar")
    /\ UNCHANGED <<blocks, activeBlockId, menuPosition, targetIndex, nextId,
                   crashed, selVars, pageVars, envVars, lastSchedule, putLog, applied>>

\* Cancel in the toolbar
ToolbarCancel ==
    /\ EditorMounted /\ showBlockTypes
    /\ showBlockTypes' = FALSE
    /\ Did("ToolbarCancel")
    /\ UNCHANGED <<blocks, activeBlockId, menuPosition, targetIndex, nextId,
                   crashed, selVars, pageVars, envVars, lastSchedule, putLog, applied>>

\* Text / To-Do in the toolbar: addBlock(type, blocks.length - 1)
ToolbarAdd(type) ==
    /\ EditorMounted /\ showBlockTypes
    /\ Len(blocks) < MaxBlocks /\ nextId <= MaxIds
    /\ addBlock(type, Len(blocks) - 1)
    /\ Did("ToolbarAdd")
    /\ UNCHANGED <<menuPosition, targetIndex, pageRest, envRest>>

\* an entry of the type menu: onSelectBlockType(type); onClose()
MenuSelect(type) ==
    /\ EditorMounted /\ MenuOpen
    /\ nextId <= MaxIds
    /\ handleSelectBlockType(type)
    /\ closeMenu
    /\ Did("MenuSelect")
    /\ UNCHANGED <<showBlockTypes, pageRest, envRest>>

\* a mousedown outside the menu: handleClickOutside
MenuClose ==
    /\ EditorMounted /\ MenuOpen
    /\ closeMenu
    /\ Did("MenuClose")
    /\ UNCHANGED <<blocks, activeBlockId, showBlockTypes, nextId, crashed,
                   selVars, pageVars, envVars, lastSchedule, putLog, applied>>

\* ------------------------------------------------- clock, timers, network
\* time passes; a timer runs when it is due, so the clock does not pass one
Tick ==
    /\ now < MaxTicks * TimeStep
    /\ \A t \in timers : t.due >= now + TimeStep
    /\ now' = now + TimeStep
    /\ Did("Tick")
    /\ UNCHANGED <<editorVars, selVars, pageVars, timers, inflight, store,
                   home, lastSchedule, putLog, applied>>

\* a request on the wire: method, identifier, the body's fields (Absent or
\* kind "missing" for a field the body does not have), and the answer once
\* the server has given it; seq numbers the note page's PUTs, page and home
\* tell whether the page that sent it is there to take the answer, queried
\* whether the handler got as far as the collection
Request(seq, method, id, title, kind, str, content, createdAt, page, hm) ==
    [seq |-> seq, method |-> method, id |-> id, title |-> title,
     kind |-> kind, str |-> str, content |-> content, createdAt |-> createdAt,
     stage |-> "request", status |-> 0, queried |-> FALSE, data |-> {},
     page |-> page, home |-> hm]

\* the body of saveNote's PUT: JSON.stringify({...updatedNote, _id: noteId,
\* updatedAt})
PutRequest(updatedNote, seq) ==
    Request(seq, "PUT", NoteId, updatedNote.title,
            "array", <<>>, JsonStringify(updatedNote.content),
            updatedNote.createdAt, TRUE, FALSE)

\* the save timer runs: saveNote(updatedNote) up to its await
TimerFire ==
    \E t \in timers :
        /\ t.due <= now
        /\ timers' = timers \ {t}
        /\ isSaving' = TRUE
        /\ inflight' = inflight \cup {PutRequest(t.note, Len(putLog) + 1)}
        /\ putLog' = Append(putLog, [at |-> now, note |-> t.note,
                                     status |-> "sent"])
        /\ Did("TimerFire")
        /\ UNCHANGED <<editorVars, selVars, note, loading, error, editingTitle,
                       saveTimeoutRef, now, store, home, lastSchedule,
                       applied>>

\* mutant: the stored document is replaced by the body
PutApplyReplace(doc, body) ==
    [exists |-> TRUE, title |-> body.title, kind |-> body.kind,
     str |-> body.str, arr |-> body.content, createdAt |-> body.createdAt]

\* updateOne({_id}, {$set: updateData}) on a stored document: the fields
\* of the body are set, the others stay
PutApply(doc, body) ==
    [exists |-> TRUE,
     title |-> IF body.title = Absent THEN doc.title ELSE body.title,
     kind |-> IF body.kind = "missing" THEN doc.kind ELSE body.kind,
     str |-> IF body.kind = "missing" THEN doc.str ELSE body.str,
     arr |-> IF body.kind = "missing" THEN doc.arr ELSE body.content,
     createdAt |-> IF body.createdAt = Absent THEN doc.createdAt
                   ELSE body.createdAt]

\* mutant: matchedCount is not looked at
PutStatusNoMatchCheck(st, body, ok) ==
    IF body.id = NoId THEN 400
    ELSE IF ~ok THEN 500
    ELSE IF ~ObjectIdIsValid(body.id) THEN 500
    ELSE 200

\* the status PUT /api/notes answers with; ok is FALSE when the storage
\* cannot be reached (clientPromise rejects); new ObjectId(_id) throws on a
\* string that is not an ObjectId
PutStatus(st, body, ok) ==
    IF body.id = NoId THEN 400
    ELSE IF ~ok THEN 500
    ELSE IF ~ObjectIdIsValid(body.id) THEN 500
    ELSE IF ~FindOne(st, body.id).exists THEN 404
    ELSE 200

\* the answer written on a request
Answer(r, status, queried) ==
    [r EXCEPT !.stage = IF status = 200 THEN "ok" ELSE "fail",
              !.status = status, !.queried = queried]

\* the server handles a PUT, in whatever order the requests reach it
ServerPut(ok) ==
    \E r \in inflight :
        /\ r.stage = "request" /\ r.method = "PUT"
        /\ LET status == PutStatus(store, r, ok)
           IN  /\ store' = IF status = 200
                           THEN [store EXCEPT ![r.id] = PutApply(@, r)]
                           ELSE store
               /\ applied' = IF status = 200 THEN r.seq ELSE applied
               /\ inflight' = (inflight \ {r}) \cup
                              {Answer(r, status, status \in {200, 404})}
               /\ putLog' = IF r.seq \in DOMAIN putLog
                             THEN [putLog EXCEPT ![r.seq].status =
                                      IF status = 200 THEN "ok" ELSE "fail"]
                             ELSE putLog
        /\ Did("ServerPut")
        /\ UNCHANGED <<editorVars, selVars, pageVars, timers, now, home,
                       lastSchedule>>

\* mutant: a save that succeeds clears the error
PutResponseClearsError ==
    \E r \in inflight :
        /\ r.stage # "request" /\ r.method = "PUT" /\ ~r.home
        /\ inflight' = inflight \ {r}
        /\ IF r.page
           THEN /\ isSaving' = FALSE
                /\ error' = IF r.stage # "ok" THEN "Failed to save note"
                            ELSE NoError
           ELSE UNCHANGED <<isSaving, error>>
        /\ Did("PutResponse")
        /\ UNCHANGED <<editorVars, selVars, note, loading, editingTitle,
                       saveTimeoutRef, timers, now, store, home, lastSchedule,
                       putLog, applied>>

\* the answer reaches saveNote: catch and finally
PutResponse ==
    \E r \in inflight :
        /\ r.stage # "request" /\ r.method = "PUT" /\ ~r.home
        /\ inflight' = inflight \ {r}
        /\ IF r.page
           THEN /\ isSaving' = FALSE
                /\ error' = IF r.stage # "ok" THEN "Failed to save note"
                            ELSE error
           ELSE UNCHANGED <<isSaving, error>>
        /\ Did("PutResponse")
        /\ UNCHANGED <<editorVars, selVars, note, loading, editingTitle,
                       saveTimeoutRef, timers, now, store, home, lastSchedule,
                       putLog, applied>>

\* the user reloads the page: a new NotePage is constructed and fetches the
\* note; the old page's timers are gone, its requests stay on the wire
Reload ==
    /\ ~loading
    /\ blocks' = <<>> /\ activeBlockId' = NullId
    /\ menuPosition' = "null" /\ targetIndex' = NoIndex
    /\ showBlockTypes' = FALSE /\ crashed' = FALSE
    /\ selStart' = 0 /\ selEnd' = 0
    /\ note' = Note("", <<>>)
    /\ loading' = TRUE /\ error' = NoError
    /\ isSaving' = FALSE /\ editingTitle' = FALSE
    /\ saveTimeoutRef' = NoTimer
    /\ timers' = {}
    /\ inflight' = {[r EXCEPT !.page = FALSE] : r \in inflight}
    /\ lastSchedule' = NoSchedule
    /\ Did("Reload")
    /\ UNCHANGED <<nextId, now, store, home, putLog, applied>>

\* --------------------------------------------------------- the notes API
\* mutant: the identifier is not validated, new ObjectId(id) throws
GetStatusNoValidation(st, id, ok) ==
    IF ~ok THEN 500
    ELSE IF ~ObjectIdIsValid(id) THEN 500
    ELSE IF ~FindOne(st, id).exists THEN 404
    ELSE 200

\* the status GET /api/notes/{id} answers with
GetStatus(st, id, ok) ==
    IF id = NoId \/ ~ObjectIdIsValid(id) THEN 400
    ELSE IF ~ok THEN 500
    ELSE IF ~FindOne(st, id).exists THEN 404
    ELSE 200

\* the status DELETE /api/notes?id= answers with
DeleteStatus(st, id, ok) ==
    IF id = NoId THEN 400
    ELSE IF ~ok THEN 500
    ELSE IF ~ObjectIdIsValid(id) THEN 500
    ELSE IF ~FindOne(st, id).exists THEN 404
    ELSE 200

\* insertOne gives the document an identifier that is not stored yet
FreeIds(st) == {id \in DOMAIN st : ~st[id].exists}

\* insertOne(body)
PostApply(body) ==
    [exists |-> TRUE, title |-> body.title, kind |-> body.kind,
     str |-> body.str, arr |-> body.content, createdAt |-> body.createdAt]

\* find({}).limit(20).toArray(): the identifiers of the stored notes
ListData(st) == {id \in DOMAIN st : st[id].exists}

\* rest of the state a server step leaves alone
serverRest == <<editorVars, selVars, pageVars, timers, now, home,
                lastSchedule, putLog, applied>>

\* GET /api/notes/{id}
ServerGet(ok) ==
    \E r \in inflight :
        /\ r.stage = "request" /\ r.method = "GET"
        /\ LET status == GetStatus(store, r.id, ok)
           IN  inflight' = (inflight \ {r}) \cup
                           {Answer(r, status, status \in {200, 404})}
        /\ Did("ServerGet")
        /\ UNCHANGED <<store, serverRest>>

\* GET /api/notes
ServerList(ok) ==
    \E r \in inflight :
        /\ r.stage = "request" /\ r.method = "LIST"
        /\ inflight' = (inflight \ {r}) \cup
                       {[Answer(r, IF ok THEN 200 ELSE 500, ok)
                            EXCEPT !.data = IF ok THEN ListData(store) ELSE {}]}
        /\ Did("ServerList")
        /\ UNCHANGED <<store, serverRest>>

\* POST /api/notes
ServerPost(ok) ==
    \E r \in inflight :
        /\ r.stage = "request" /\ r.method = "POST"
        /\ IF ok
           THEN \E insertedId \in FreeIds(store) :
                /\ store' = [store EXCEPT ![insertedId] = PostApply(r)]
                /\ inflight' = (inflight \ {r}) \cup
                               {[Answer(r, 200, TRUE) EXCEPT !.id = insertedId]}
           ELSE /\ store' = store
                /\ inflight' = (inflight \ {r}) \cup {Answer(r, 500, FALSE)}
        /\ Did("ServerPost")
        /\ UNCHANGED serverRest

\* DELETE /api/notes?id=
ServerDelete(ok) ==
    \E r \in inflight :
        /\ r.stage = "request" /\ r.method = "DELETE"
        /\ LET status == DeleteStatus(store, r.id, ok)
           IN  /\ store' = IF status = 200
                           THEN [store EXCEPT ![r.id] = NoDoc]
                           ELSE store
               /\ inflight' = (inflight \ {r}) \cup
                              {Answer(r, status, status \in {200, 404})}
        /\ Did("ServerDelete")
        /\ UNCHANGED serverRest

\* a client of the API other than the two pages sends a request, one at a
\* time
ApiCall(r) ==
    /\ inflight = {}
    /\ inflight' = {r}
    /\ Did("ApiCall")
    /\ UNCHANGED <<store, serverRest>>

\* and takes the answer
ApiAnswer ==
    \E r \in inflight :
        /\ r.stage # "request" /\ ~r.page /\ ~r.home
        /\ inflight' = inflight \ {r}
        /\ Did("ApiAnswer")
        /\ UNCHANGED <<store, serverRest>>

\* --------------------------------------------------------------- the title
\* the page with its header is on screen
PageShown == ~loading /\ error = NoError

\* the user clicks the title: the heading becomes an input
handleTitleClick ==
    /\ PageShown /\ ~editingTitle
    /\ editingTitle' = TRUE
    /\ Did("handleTitleClick")
    /\ UNCHANGED <<editorVars, selVars, note, loading, error, isSaving,
                   saveTimeoutRef, envVars, lastSchedule, putLog, applied>>

\* the user edits the title input: setNote only
handleTitleChange(value) ==
    /\ PageShown /\ editingTitle
    /\ value # note.title
    /\ note' = [note EXCEPT !.title = value]
    /\ Did("handleTitleChange")
    /\ UNCHANGED <<editorVars, selVars, pageRest, saveTimeoutRef, envVars,
                   lastSchedule, putLog, applied>>

\* the title input loses focus or takes Enter (handleTitleKeyDown)
handleTitleSave ==
    /\ PageShown /\ editingTitle
    /\ editingTitle' = FALSE
    /\ debouncedSave(note)
    /\ Did("handleTitleSave")
    /\ UNCHANGED <<editorVars, selVars, note, loading, error, isSaving,
                   envRest>>

\* ------------------------------------------------------------ the network
\* fetch rejects: the request or its answer is lost on the way
NetFail ==
    \E r \in inflight :
        /\ r.stage # "lost"
        /\ r.page \/ r.home
        /\ inflight' = (inflight \ {r}) \cup {[r EXCEPT !.stage = "lost"]}
        /\ Did("NetFail")
        /\ UNCHANGED <<store, serverRest>>

\* fetchNote's request is not answered with success, or is lost
FetchNoteFail ==
    /\ loading /\ error = NoError
    /\ loading' = FALSE
    /\ error' = "Failed to load note"
    /\ Did("FetchNoteFail")
    /\ UNCHANGED <<editorVars, selVars, note, isSaving, editingTitle,
                   saveTimeoutRef, envVars, lastSchedule, putLog, applied>>

\* ------------------------------------------------------------- Home's steps
homeRest == <<editorVars, selVars, pageVars, timers, now, store,
              lastSchedule, putLog, applied>>

\* fetch('/api/notes')
ListRequest ==
    Request(0, "LIST", NoId, "", "missing", <<>>, <<>>, Absent, FALSE, TRUE)

\* mutant: the new note's title is the empty string
CreateRequestEmptyTitle ==
    Request(0, "POST", NoId, "", "string", <<>>, <<>>, Created, FALSE, TRUE)

\* the body of createNewNote's POST: {title: "Untitled Note", content: "",
\* createdAt, updatedAt}
CreateRequest ==
    Request(0, "POST", NoId, "Untitled Note", "string", <<>>, <<>>, Created,
            FALSE, TRUE)

\* fetch('/api/notes?id=' + id, {method: 'DELETE'})
DeleteRequest(id) ==
    Request(0, "DELETE", id, "", "missing", <<>>, <<>>, Absent, FALSE, TRUE)

\* the answer reaches fetchNotes: response.ok is not looked at
HomeListResponse ==
    \E r \in inflight :
        /\ r.stage # "request" /\ r.method = "LIST" /\ r.home
        /\ home.route = Root
        /\ inflight' = inflight \ {r}
        /\ home' = IF r.stage = "lost"
                   THEN [home EXCEPT !.error = "Failed to load notes",
                                     !.loading = FALSE]
                   ELSE [home EXCEPT !.notes = r.data, !.loading = FALSE]
        /\ Did("HomeListResponse")
        /\ UNCHANGED homeRest

\* the user clicks "New Note"
createNewNote ==
    /\ home.route = Root
    /\ CreateRequest \notin inflight
    /\ inflight' = inflight \cup {CreateRequest}
    /\ Did("createNewNote")
    /\ UNCHANGED <<home, homeRest>>

\* the answer reaches createNewNote: router.push('/note/' + result.id)
\* replaces the dashboard by the note page, which is constructed and
\* fetches its note; the answers still on the way find no dashboard
HomeCreateResponse ==
    \E r \in inflight :
        /\ r.stage # "request" /\ r.method = "POST" /\ r.home
        /\ home.route = Root
        /\ IF r.stage = "ok"
           THEN /\ home' = Home(r.id, {}, FALSE, NoError)
                /\ inflight' = {[q EXCEPT !.home = FALSE] :
                                    q \in inflight \ {r}}
           ELSE /\ home' = [home EXCEPT !.error = "Failed to create note"]
                /\ inflight' = inflight \ {r}
        /\ Did("HomeCreateResponse")
        /\ UNCHANGED homeRest

\* the user clicks a card's delete button and confirms
deleteNote(id) ==
    /\ home.route = Root /\ ~home.loading
    /\ id \in home.notes
    /\ DeleteRequest(id) \notin inflight
    /\ inflight' = inflight \cup {DeleteRequest(id)}
    /\ Did("deleteNote")
    /\ UNCHANGED <<home, homeRest>>

\* the answer reaches deleteNote: on success the list is fetched again
HomeDeleteResponse ==
    \E r \in inflight :
        /\ r.stage # "request" /\ r.method = "DELETE" /\ r.home
        /\ home.route = Root
        /\ IF r.stage = "ok"
           THEN /\ home' = [home EXCEPT !.loading = TRUE]
                /\ inflight' = (inflight \ {r}) \cup {ListRequest}
           ELSE /\ home' = [home EXCEPT !.error = "Failed to delete note"]
                /\ inflight' = inflight \ {r}
        /\ Did("HomeDeleteResponse")
        /\ UNCHANGED homeRest

\* the user clicks "Dismiss" on the error banner
Dismiss ==
    /\ home.route = Root /\ home.error # NoError
    /\ home' = [home EXCEPT !.error = NoError]
    /\ Did("Dismiss")
    /\ UNCHANGED <<inflight, homeRest>>

\* ------------------------------------------------------------------- Init
\* the blocks a stored array is made of
StoredBlock(id, v) ==
    CASE v = 1 -> Block(id, "text", Str(<<>>))
      [] v = 2 -> Block(id, "text", Str(<<"x">>))
      [] v = 3 -> Block(id, "todo", Obj(<<>>, FALSE))
      [] v = 4 -> Block(id, "todo", Obj(<<"x">>, TRUE))

EditorTexts == {<<>>, <<"x">>}

\* uuidv4 never returns an identifier that is stored already: the fresh
\* identifiers are the positive numbers above the stored ones
FirstFreshId(arr) ==
    LET ids == {arr[i].id : i \in DOMAIN arr} \cup {0}
    IN  Max(1, (CHOOSE m \in ids : \A k \in ids : k <= m) + 1)

\* the state right after construction: the store st, the page h on screen
\* and the requests reqs its mount effect has sent
InitOn(st, h, reqs) ==
    /\ blocks = <<>> /\ activeBlockId = NullId
    /\ menuPosition = "null" /\ targetIndex = NoIndex
    /\ showBlockTypes = FALSE /\ crashed = FALSE
    /\ nextId = FirstFreshId(FindOne(st, NoteId).arr)
    /\ selStart = 0 /\ selEnd = 0
    /\ note = Note("", <<>>)
    /\ loading = TRUE /\ error = NoError
    /\ isSaving = FALSE /\ editingTitle = FALSE
    /\ saveTimeoutRef = NoTimer
    /\ timers = {} /\ now = 0 /\ inflight = reqs
    /\ store = st
    /\ home = h
    /\ lastSchedule = NoSchedule /\ putLog = <<>> /\ applied = 0
    /\ lastOp = "Init" /\ before = NoBefore

\* the note page right after construction, the fetch of the note in flight
InitPageOn(st) == InitOn(st, NoHome, {})

\* the same, the store holding the page's note only
InitPage(doc) == InitPageOn([id \in {NoteId} |-> doc])

\* the editor on a note whose stored content is a block array, a legacy
\* string or missing
EditorDocs ==
    {Doc("T", "array", <<>>, <<>>),
     Doc("T", "array", <<>>, <<StoredBlock(1, 1), StoredBlock(2, 4)>>)}

InitEditor == \E doc \in EditorDocs : InitPage(doc)

NextEditor ==
    \/ FetchNoteOk
    \/ ShiftEnterKey
    \/ BackspaceKey
    \/ SlashKey
    \/ \E v \in EditorTexts : TextChange(v)
    \/ \E v \in EditorTexts : TodoTextChange(v)
    \/ \E i \in 1..(MaxBlocks + 1) : TodoToggle(i)
    \/ \E i \in 1..(MaxBlocks + 1) : Focus(i)
    \/ \E s \in 0..MaxTyped, e \in 0..MaxTyped : SetSelection(s, e)
    \/ DeleteButton
    \/ ShowToolbar
    \/ ToolbarCancel
    \/ \E type \in MenuTypes : ToolbarAdd(type)
    \/ \E type \in MenuTypes : MenuSelect(type)
    \/ MenuClose

SpecEditor == InitEditor /\ [][NextEditor]_vars

\* one TextBlock, loaded from an empty legacy string, and the keys of its
\* textarea
TextDoc == Doc("T", "string", <<>>, <<>>)

InitText == InitPage(TextDoc)

NextText ==
    \/ FetchNoteOk
    \/ \E c \in Chars : TypeChar(c)
    \/ TabKey
    \/ ShiftTabKey
    \/ BackspaceKey
    \/ \E s \in 0..MaxText : SetSelection(s, s)

SpecText == InitText /\ [][NextText]_vars

\* the note page with its debounced save over an editor of one TextBlock,
\* and the server
SaveDoc == Doc("T", "array", <<>>, <<>>)

InitSave == InitPage(SaveDoc)

NextSave ==
    \/ FetchNoteOk
    \/ \E v \in EditorTexts : TextChange(v)
    \/ Tick
    \/ TimerFire
    \/ \E ok \in BOOLEAN : ServerPut(ok)
    \/ PutResponse

SpecSave == InitSave /\ [][NextSave]_vars

\* a stored note of three blocks of an earlier session: edited, saved, and
\* loaded again by a reload of the page
RoundTripDoc ==
    Doc("T", "array", <<>>,
        <<StoredBlock(-3, 1), StoredBlock(-2, 4), StoredBlock(-1, 1)>>)

InitRoundTrip == InitPage(RoundTripDoc)

\* the edits come first, within the first step of the clock; the page is
\* reloaded once a save has been answered
Editing == now = 0
SaveAnswered == applied # 0 /\ inflight = {}

NextRoundTrip ==
    \/ FetchNoteOk
    \/ Editing /\ \E i \in 1..(MaxBlocks + 1) : Focus(i)
    \/ Editing /\ \E i \in 1..(MaxBlocks + 1) : TodoToggle(i)
    \/ Editing /\ SlashKey
    \/ Editing /\ DeleteButton
    \/ Editing /\ \E type \in MenuTypes : MenuSelect(type)
    \/ Tick
    \/ TimerFire
    \/ ServerPut(TRUE)
    \/ PutResponse
    \/ SaveAnswered /\ Reload

SpecRoundTrip == InitRoundTrip /\ [][NextRoundTrip]_vars

\* the API on its own: two identifiers the store knows, requests with a
\* stored, an unknown, a missing and a malformed identifier
ApiIds == {NoteId, OtherId, NoId, BadId}
ApiDocs ==
    {NoDoc,
     Doc("T", "array", <<>>, <<StoredBlock(1, 1)>>),
     Doc("T", "string", <<"x">>, <<>>)}

ApiBodies ==
    {[title |-> t, kind |-> c[1], str |-> c[2], content |-> c[3], createdAt |-> d] :
        t \in {Absent, "N"},
        c \in {<<"missing", <<>>, <<>>>>, <<"string", <<"y">>, <<>>>>,
               <<"array", <<>>, <<StoredBlock(2, 2)>>>>},
        d \in {Absent, "t1"}}

ApiRequests ==
    {Request(0, m, id, Absent, "missing", <<>>, <<>>, Absent, FALSE, FALSE) :
        m \in {"GET", "DELETE"}, id \in ApiIds}
    \cup {Request(0, "LIST", NoId, Absent, "missing", <<>>, <<>>, Absent,
                  FALSE, FALSE)}
    \cup {Request(0, m, IF m = "POST" THEN NoId ELSE id, b.title, b.kind, b.str,
                  b.content, b.createdAt, FALSE, FALSE) :
            m \in {"PUT", "POST"}, id \in ApiIds, b \in ApiBodies}

InitApi == \E st \in [{NoteId, OtherId} -> ApiDocs] : InitPageOn(st)

NextApi ==
    \/ \E r \in ApiRequests : ApiCall(r)
    \/ \E ok \in BOOLEAN : ServerGet(ok)
    \/ \E ok \in BOOLEAN : ServerList(ok)
    \/ \E ok \in BOOLEAN : ServerPost(ok)
    \/ \E ok \in BOOLEAN : ServerPut(ok)
    \/ \E ok \in BOOLEAN : ServerDelete(ok)
    \/ ApiAnswer

SpecApi == InitApi /\ [][NextApi]_vars

\* the dashboard over a store of at most two notes; a created note is
\* opened on the note page and edited there
HomeDocs == {NoDoc, Doc("T", "array", <<>>, <<StoredBlock(-1, 2)>>)}

InitHome ==
    \E st \in [{NoteId, OtherId} -> HomeDocs] :
        InitOn(st, NewHome, {ListRequest})

OnNote == home.route = NoteId
Idle == inflight = {}

NextHome ==
    \/ HomeListResponse
    \/ Idle /\ createNewNote
    \/ HomeCreateResponse
    \/ Idle /\ \E id \in {NoteId, OtherId} : deleteNote(id)
    \/ HomeDeleteResponse
    \/ Dismiss
    \/ \E ok \in BOOLEAN : ServerList(ok)
    \/ \E ok \in BOOLEAN : ServerPost(ok)
    \/ \E ok \in BOOLEAN : ServerDelete(ok)
    \/ NetFail
    \/ OnNote /\ FetchNoteOk
    \/ OnNote /\ FetchNoteFail
    \/ OnNote /\ \E v \in EditorTexts : TextChange(v)
    \/ OnNote /\ Tick
    \/ OnNote /\ TimerFire
    \/ \E ok \in BOOLEAN : ServerPut(ok)
    \/ PutResponse

SpecHome == InitHome /\ [][NextHome]_vars

\* the editor on a note of three blocks, the type menu opened by '/' and
\* blocks deleted and inserted while it is open
InitMenu == InitPage(RoundTripDoc)

NextMenu ==
    \/ FetchNoteOk
    \/ \E i \in 1..(MaxBlocks + 1) : Focus(i)
    \/ SlashKey
    \/ DeleteButton
    \/ \E type \in MenuTypes : MenuSelect(type)
    \/ MenuClose
    \/ ShiftEnterKey
    \/ BackspaceKey

SpecMenu == InitMenu /\ [][NextMenu]_vars

\* the editor's insert and replace called with each type of BlockType
InitTypes == InitEditor

NextTypes ==
    \/ FetchNoteOk
    \/ \E i \in 1..(MaxBlocks + 1) : Focus(i)
    \/ SlashKey
    \/ DeleteButton
    \/ ShowToolbar
    \/ \E type \in BlockTypes : ToolbarAdd(type)
    \/ \E type \in BlockTypes : MenuSelect(type)

SpecTypes == InitTypes /\ [][NextTypes]_vars

\* two TodoBlocks, the first stored with a string as its content, and the
\* edits of their fields and checkboxes
TodoDoc ==
    Doc("T", "array", <<>>,
        <<Block(1, "todo", Str(<<"x">>)), StoredBlock(2, 3)>>)
TodoTexts == {<<>>, <<"x">>, <<"y">>}

InitTodo == InitPage(TodoDoc)

NextTodo ==
    \/ FetchNoteOk
    \/ \E i \in 1..(MaxBlocks + 1) : Focus(i)
    \/ \E value \in TodoTexts : TodoTextChange(value)
    \/ \E i \in 1..(MaxBlocks + 1) : TodoToggle(i)

SpecTodo == InitTodo /\ [][NextTodo]_vars

\* the note page with its title edited: the clock runs, a due timer fires,
\* the server answers and the answer is taken without the user's help; an
\* edit that schedules a save is taken while the clock can still reach the
\* timer's time
TitleDoc == Doc("T", "array", <<>>, <<StoredBlock(-1, 2)>>)
TitleTexts == {"", "T", "N"}

InitTitle == InitPage(TitleDoc)

CanFire == now + SaveDelay <= MaxTicks * TimeStep

NextTitle ==
    \/ CanFire /\ FetchNoteOk
    \/ handleTitleClick
    \/ \E t \in TitleTexts : handleTitleChange(t)
    \/ CanFire /\ handleTitleSave
    \/ CanFire /\ ~editingTitle /\ \E v \in EditorTexts : TextChange(v)
    \/ Tick
    \/ TimerFire
    \/ \E ok \in BOOLEAN : ServerPut(ok)
    \/ PutResponse

FairTitle ==
    /\ WF_vars(CanFire /\ FetchNoteOk)
    /\ WF_vars(Tick)
    /\ WF_vars(TimerFire)
    /\ WF_vars(\E ok \in BOOLEAN : ServerPut(ok))
    /\ WF_vars(PutResponse)

SpecTitle == InitTitle /\ [][NextTitle]_vars /\ FairTitle

\* the note page loads a note whose stored content is a string of at most
\* MaxLoadLen characters, an array of at most two blocks, some other value
\* or missing
LoadStrings == UNION {[1..n -> {"x", Space}] : n \in 0..MaxLoadLen}
LoadArrays ==
    {<<>>}
    \cup {<<StoredBlock(-1, v)>> : v \in 1..4}
    \cup {<<StoredBlock(-2, v), StoredBlock(-1, w)>> : v \in 1..4, w \in 1..4}
LoadDocs ==
    {Doc(t, "string", str, <<>>) : t \in {"", "T"}, str \in LoadStrings}
    \cup {Doc(t, "array", <<>>, arr) : t \in {"", "T"}, arr \in LoadArrays}
    \cup {Doc(t, k, <<>>, <<>>) : t \in {"", "T"}, k \in {"other", "missing"}}

InitLoad == \E doc \in LoadDocs : InitPage(doc)

NextLoad ==
    \/ FetchNoteOk
    \/ FetchNoteFail

SpecLoad == InitLoad /\ [][NextLoad]_vars

\* the same notes, loaded and left alone: the clock, the save timer and the
\* server
NextMount ==
    \/ FetchNoteOk
    \/ Tick
    \/ TimerFire
    \/ \E ok \in BOOLEAN : ServerPut(ok)
    \/ PutResponse

SpecMount == InitLoad /\ [][NextMount]_vars

\* ------------------------------------------------------------ block editor
\* C1: whatever the operations and whatever was loaded (an empty array
\* included), the mounted editor's sequence holds at least one block.
AtLeastOneBlock ==
    EditorMounted => Len(blocks) >= 1 /\ RenderedBlocks # {}

\* an editor loaded from an empty array, back at one block after inserts
\* and deletes
AtLeastOneBlockWitness ==
    /\ EditorMounted
    /\ store[NoteId].kind = "array" /\ store[NoteId].arr = <<>>
    /\ Len(blocks) = 1 /\ nextId >= 3

\* the Backspace that asks for the focused block to be deleted: the block
\* is an empty TextBlock and the caret is collapsed
BackspaceDeletes ==
    /\ BackspaceKey
    /\ ActiveIs("text") /\ TextValue(ActiveBlock) = <<>>

\* C2: with exactly one block in the sequence, the delete button and the
\* deleting Backspace leave the sequence and the active identifier as
\* they are.
DeleteLastIsNoop ==
    [][(EditorMounted /\ Len(blocks) = 1 /\ (DeleteButton \/ BackspaceDeletes))
        => (blocks' = blocks /\ activeBlockId' = activeBlockId)]_vars

\* the delete button was pressed on the default block of a note loaded
\* from an empty array, no block having been created since: the block is
\* still there
DeleteLastIsNoopWitness ==
    /\ EditorMounted /\ lastOp = "DeleteButton"
    /\ store[NoteId].arr = <<>> /\ nextId = 2
    /\ Len(blocks) = 1 /\ blocks[1].id = 1

\* C3: no two blocks of the sequence share an identifier.
UniqueIds ==
    EditorMounted =>
        \A i, j \in RenderedBlocks : i # j => blocks[i].id # blocks[j].id

\* two blocks, both created in this session
UniqueIdsWitness ==
    /\ EditorMounted /\ Cardinality(RenderedBlocks) >= 2
    /\ \A i \in RenderedBlocks : blocks[i].id > Len(store[NoteId].arr)

\* C4: the active identifier is null or the identifier of a block of the
\* sequence.
ActiveInSequence ==
    EditorMounted =>
        \/ activeBlockId = NullId
        \/ \E i \in RenderedBlocks : blocks[i].id = activeBlockId

\* a block was deleted from the two stored ones and the survivor is active
ActiveInSequenceWitness ==
    /\ EditorMounted
    /\ Len(store[NoteId].arr) = 2 /\ nextId = 3
    /\ Len(blocks) = 1 /\ activeBlockId = blocks[1].id

ShapeMatches(b) ==
    /\ b.type = "text" => TypeOf(b.content) = "string"
    /\ b.type = "todo" => TypeOf(b.content) = "object"

\* C5: every block of the sequence has the content shape of its type tag
\* (text: a string, todo: an object {text, checked}).
ContentShape ==
    EditorMounted => \A i \in RenderedBlocks : ShapeMatches(blocks[i])

\* a todo created in this session, then edited and checked
ContentShapeWitness ==
    /\ EditorMounted
    /\ \E i \in RenderedBlocks :
          /\ blocks[i].id > Len(store[NoteId].arr)
          /\ blocks[i].type = "todo"
          /\ blocks[i].content = Obj(<<"x">>, TRUE)

\* ---------------------------------------------------------------- textarea
ActiveText == TextValue(ActiveBlock)
FourSpacesX == Spaces(4) \o <<"x">>

\* Backspace in a TextBlock holding "    x" with the caret collapsed at 4
BackspaceAtFour ==
    /\ BackspaceKey
    /\ ActiveIs("text") /\ ActiveText = FourSpacesX
    /\ selStart = 4 /\ selEnd = 4

\* C9 as stated: Backspace with the caret collapsed at 4 in "    x" removes
\* all four spaces and leaves "x" with the caret at 0.
BackspaceRemovesAllFour ==
    [][BackspaceAtFour =>
        (ActiveText' = <<"x">> /\ selStart' = 0 /\ selEnd' = 0)]_vars

\* C9: Backspace with the caret collapsed at 4 in "    x" removes one indent
\* width, the two spaces before the caret, and leaves "  x" with the caret
\* at 2.
BackspaceRemovesOneTab ==
    [][BackspaceAtFour =>
        (ActiveText' = Spaces(TAB_SIZE) \o <<"x">>
         /\ selStart' = 4 - TAB_SIZE /\ selEnd' = 4 - TAB_SIZE)]_vars

\* that Backspace has just run
BackspaceRemovesOneTabWitness ==
    /\ EditorMounted /\ lastOp = "BackspaceKey"
    /\ before.text = FourSpacesX /\ before.start = 4 /\ before.end = 4
    /\ ActiveText = Spaces(2) \o <<"x">> /\ selStart = 2

\* C10: Tab in an empty TextBlock gives exactly two spaces with the caret at
\* 2; the Shift+Tab pressed next gives the empty value back, caret at 0.
TabThenShiftTab ==
    [][/\ (TabKey /\ ActiveText = <<>>) =>
            (ActiveText' = <<Space, Space>> /\ selStart' = 2 /\ selEnd' = 2)
       /\ (ShiftTabKey /\ lastOp = "TabKey" /\ before.text = <<>>) =>
            (ActiveText' = <<>> /\ selStart' = 0 /\ selEnd' = 0)]_vars

\* Shift+Tab has just run on the two spaces a Tab had made
TabThenShiftTabWitness ==
    /\ EditorMounted /\ lastOp = "ShiftTabKey"
    /\ before.op = "TabKey"
    /\ before.text = <<Space, Space>> /\ before.start = 2 /\ before.end = 2
    /\ ActiveText = <<>> /\ selStart = 0 /\ selEnd = 0

\* -------------------------------------------------------------- auto-save
PutsAt(t) == {i \in DOMAIN putLog : putLog[i].at = t}

\* C6: at most one save timer is pending; it is the one of the latest
\* notification, due 1000 ms after it, and the notifications it replaced
\* send nothing; once it has run, exactly one PUT was sent at that time and
\* it carries the state of the latest notification; two PUTs are never
\* less than 1000 ms apart.
Debounced ==
    /\ Cardinality(timers) <= 1
    /\ lastSchedule # NoSchedule =>
          LET due == lastSchedule.at + SaveDelay
          IN  IF timers # {}
              THEN /\ \A t \in timers :
                         t.due = due /\ t.note = lastSchedule.note
                   /\ PutsAt(due) = {}
              ELSE /\ Cardinality(PutsAt(due)) = 1
                   /\ \A i \in PutsAt(due) : putLog[i].note = lastSchedule.note
    /\ \A i, j \in DOMAIN putLog :
          i < j => putLog[j].at - putLog[i].at >= SaveDelay

\* the mount and an edit 500 ms after the clock started: one PUT, at
\* 1500 ms, with the edited state
DebouncedWitness ==
    /\ timers = {} /\ Len(putLog) = 1
    /\ lastSchedule.at = 500 /\ putLog[1].at = 1500
    /\ putLog[1].note = lastSchedule.note
    /\ putLog[1].note.content = <<Block(1, "text", Str(<<"x">>))>>

\* edits have stopped and every PUT the page issued has been answered with
\* success
Quiescent ==
    /\ EditorMounted
    /\ timers = {} /\ inflight = {}
    /\ putLog # <<>>
    /\ \A i \in DOMAIN putLog : putLog[i].status = "ok"

\* C7: once edits stop and every issued PUT has completed successfully, the
\* stored content of the note is the editor's final block sequence.
LastStateStored ==
    Quiescent =>
        /\ store[NoteId].kind = "array"
        /\ store[NoteId].arr = JsonStringify(blocks)

SameTypesAndContents(a, b) ==
    /\ Len(a) = Len(b)
    /\ \A i \in DOMAIN a :
          a[i].type = b[i].type /\ a[i].content = b[i].content

\* the editor's sequence carried by the PUT the store applied last
Saved == putLog[applied].note.content

\* C8: after a successful save, a load of the note hands the editor a block
\* sequence equal to the saved one in types and contents.
RoundTrip ==
    (lastOp = "FetchNoteOk" /\ applied # 0) =>
        /\ ~crashed
        /\ SameTypesAndContents(blocks, Saved)

\* ----------------------------------------------------------------- the API
\* the server answers request r with a in this step
Answers(r, a) ==
    /\ r.stage = "request" /\ a.stage \in {"ok", "fail"}
    /\ a.method = r.method /\ a.seq = r.seq /\ a.page = r.page
    /\ a.home = r.home

\* C11: GET /api/notes/{id} with an identifier that is not validly formatted
\* is answered 400, the store is not queried and is left as it is.
GetBadIdIs400 ==
    [][\A r \in inflight, a \in inflight' :
          (Answers(r, a) /\ r.method = "GET" /\ ~ObjectIdIsValid(r.id)) =>
              (a.status = 400 /\ ~a.queried /\ store' = store)]_vars

\* a GET with a malformed identifier has been answered
GetBadIdIs400Witness ==
    \E a \in inflight :
        a.method = "GET" /\ a.id = BadId /\ a.stage = "fail" /\ a.status = 400

\* C12: a GET by id, PUT or DELETE whose identifier is missing or not
\* validly formatted is answered with a 4xx status and leaves the stored
\* notes unchanged.
BadIdIs4xx ==
    [][\A r \in inflight, a \in inflight' :
          (/\ Answers(r, a) /\ r.method \in {"GET", "PUT", "DELETE"}
           /\ (r.id = NoId \/ ~ObjectIdIsValid(r.id))) =>
              (a.status \in 400..499 /\ store' = store)]_vars

FieldsOf(doc) ==
    [title |-> doc.title, kind |-> doc.kind, str |-> doc.str, arr |-> doc.arr,
     createdAt |-> doc.createdAt]

\* C16 as stated: after a successful PUT the stored record consists of
\* exactly the fields of the body; a field absent from the body is no
\* longer stored.
PutReplaces ==
    [][\A r \in inflight, a \in inflight' :
          (Answers(r, a) /\ r.method = "PUT" /\ a.status = 200) =>
              FieldsOf(store'[r.id]) =
                  [title |-> r.title, kind |-> r.kind, str |-> r.str,
                   arr |-> r.content, createdAt |-> r.createdAt]]_vars

\* C16: after a successful PUT every field of the body has the body's
\* value in the stored record, the content as a whole, and every field
\* absent from the body keeps its stored value.
PutSetsFields ==
    [][\A r \in inflight, a \in inflight' :
          (Answers(r, a) /\ r.method = "PUT" /\ a.status = 200) =>
              LET old == store[r.id]
                  new == store'[r.id]
              IN  /\ new.title = IF r.title = Absent THEN old.title ELSE r.title
                  /\ new.createdAt = IF r.createdAt = Absent THEN old.createdAt
                                     ELSE r.createdAt
                  /\ IF r.kind = "missing"
                     THEN new.kind = old.kind /\ new.str = old.str
                          /\ new.arr = old.arr
                     ELSE new.kind = r.kind /\ new.str = r.str
                          /\ new.arr = r.content]_vars

\* a PUT whose body has a content and no title was answered 200: the note
\* has the body's content and the title it had
PutSetsFieldsWitness ==
    \E a \in inflight :
        /\ a.method = "PUT" /\ a.status = 200
        /\ a.title = Absent /\ a.createdAt = Absent /\ a.kind = "array"
        /\ store[a.id].title = "T" /\ store[a.id].createdAt = Created
        /\ store[a.id].kind = "array" /\ store[a.id].arr = a.content

\* ------------------------------------------------------------------ writers
\* C14: every request by which a page writes a note (the dashboard's POST,
\* the note page's PUT) carries the content as a block array.
WritersSendArrays ==
    \A r \in inflight :
        r.method \in {"POST", "PUT"} => r.kind = "array"

\* ------------------------------------------------------------------ loading
OneTextBlock(text) ==
    /\ Len(blocks) = 1
    /\ IsBlock(blocks[1])
    /\ blocks[1].type = "text"
    /\ blocks[1].content = Str(text)

\* C15: once the note is loaded the editor holds a single text block with
\* the string when the stored content is a non-empty string, a single empty
\* text block when it is the empty string, missing, not a sequence or an
\* empty array, and the stored sequence itself when it is a non-empty array.
LoadNormalised ==
    (lastOp = "FetchNoteOk") =>
        LET doc == store[NoteId]
        IN  /\ ~crashed
            /\ note.content = blocks
            /\ (doc.kind = "string" /\ doc.str # <<>>) => OneTextBlock(doc.str)
            /\ (doc.kind = "string" /\ doc.str = <<>>) => OneTextBlock(<<>>)
            /\ doc.kind \in {"other", "missing"} => OneTextBlock(<<>>)
            /\ (doc.kind = "array" /\ doc.arr # <<>>) => blocks = doc.arr
            /\ (doc.kind = "array" /\ doc.arr = <<>>) => OneTextBlock(<<>>)

LoadNormalisedWitness ==
    /\ lastOp = "FetchNoteOk"
    /\ store[NoteId].kind = "string"
    /\ store[NoteId].str = <<"x", Space>>
    /\ OneTextBlock(<<"x", Space>>)

\* ----------------------------------------------------------------- failures
\* the handler of method's answers on the dashboard (op) takes r
HomeTakes(r, op, method) ==
    /\ lastOp' = op
    /\ r.method = method /\ r.home
    /\ r.stage # "request"
    /\ r \notin inflight'

Failed(r) == r.stage \in {"fail", "lost"}

\* C17: a request of a page that failed, by a status that is not a success
\* or by a network error, sets the error message of that page when its
\* answer is taken: list, create and delete on the dashboard, load and save
\* on the note page.
FailuresSetError ==
    [][/\ \A r \in inflight :
            /\ (/\ Failed(r)
                /\ \/ HomeTakes(r, "HomeListResponse", "LIST")
                   \/ HomeTakes(r, "HomeCreateResponse", "POST")
                   \/ HomeTakes(r, "HomeDeleteResponse", "DELETE"))
               => home'.error # NoError
            /\ (/\ Failed(r)
                /\ lastOp' = "PutResponse" /\ r.method = "PUT" /\ r.page
                /\ r \notin inflight')
               => error' # NoError
       /\ lastOp' = "FetchNoteFail" => error' # NoError]_vars

\* ----------------------------------------------------------------- new note
\* the documents a step of the server has inserted
Inserted == {id \in DOMAIN store : ~store[id].exists /\ store'[id].exists}

\* a content that holds nothing: the empty string or an array of no blocks
EmptyContent(doc) ==
    \/ doc.kind = "string" /\ doc.str = <<>>
    \/ doc.kind = "array" /\ doc.arr = <<>>

\* C18 as stated: the document "New Note" creates has the empty string as
\* its title and an empty content.
NewNoteIsBlank ==
    [][\A id \in Inserted :
          store'[id].title = "" /\ EmptyContent(store'[id])]_vars

\* C18 amended: the document "New Note" creates has the title
\* "Untitled Note" and an empty content.
NewNoteIsUntitled ==
    [][\A id \in Inserted :
          store'[id].title = "Untitled Note" /\ EmptyContent(store'[id])]_vars

NewNoteIsUntitledWitness ==
    /\ lastOp = "ServerPost"
    /\ store[NoteId].exists
    /\ store[NoteId].title = "Untitled Note"
    /\ EmptyContent(store[NoteId])

\* ------------------------------------------------------------------- title
\* a PUT carrying the title t has been sent
SentTitle(t) == \E i \in DOMAIN putLog : putLog[i].note.title = t

\* C19: when the user has given the title a value and does nothing more
\* (the title input keeps the focus, Enter is not pressed), a PUT carrying
\* that title is eventually sent.
TitleAutoSaved ==
    \A t \in TitleTexts :
        <>[](editingTitle /\ note.title = t) => <>SentTitle(t)

\* -------------------------------------------------------------- Shift+Enter
\* position (from 1) of the active block
ActivePos == CHOOSE i \in ActiveIdx : TRUE

\* C20: Shift+Enter in the block at position i puts one new empty text block
\* at position i + 1, leaves the other blocks as they were and in their
\* order, and makes the new block the active one.
ShiftEnterInserts ==
    [][(lastOp' = "ShiftEnterKey") =>
          LET i == ActivePos
          IN  /\ ~crashed'
              /\ Len(blocks') = Len(blocks) + 1
              /\ IsBlock(blocks'[i + 1])
              /\ blocks'[i + 1].type = "text"
              /\ blocks'[i + 1].content = Str(<<>>)
              /\ \A k \in 1..Len(blocks) : blocks[k].id # blocks'[i + 1].id
              /\ \A k \in 1..i : blocks'[k] = blocks[k]
              /\ \A k \in (i + 1)..Len(blocks) : blocks'[k + 1] = blocks[k]
              /\ activeBlockId' = blocks'[i + 1].id]_vars

\* ---------------------------------------------------------------- Backspace
\* the identifiers of a sequence, in order
IdsOf(bs) == [k \in DOMAIN bs |-> IF IsBlock(bs[k]) THEN bs[k].id ELSE NullId]

\* C21: Backspace in an empty text block at position i of a sequence of more
\* than one block removes that block and no other, the rest keeping their
\* order, and makes active the block that was before it or, at the first
\* position, the block that is first afterwards; Backspace in a text block
\* that is not empty or in a todo block removes no block.
BackspaceRemovesBlock ==
    [][(lastOp' = "BackspaceKey") =>
          LET i == ActivePos
          IN  IF /\ ActiveIs("text")
                 /\ TextValue(ActiveBlock) = <<>>
                 /\ Len(blocks) > 1
              THEN /\ ~crashed'
                   /\ Len(blocks') = Len(blocks) - 1
                   /\ \A k \in 1..(i - 1) : blocks'[k] = blocks[k]
                   /\ \A k \in (i + 1)..Len(blocks) : blocks'[k - 1] = blocks[k]
                   /\ activeBlockId' = IF i > 1 THEN blocks[i - 1].id
                                       ELSE blocks'[1].id
              ELSE IdsOf(blocks') = IdsOf(blocks)]_vars

\* ---------------------------------------------------------------- type menu
\* the text a block shows in its field
VisibleText(b) == IF b.type = "todo" THEN todoContent(b).text ELSE TextValue(b)

\* C22: in a text block and in a todo block alike, '/' opens the type menu
\* only when the block's visible text is empty; otherwise the menu stays
\* closed and the character is typed.
SlashOpensOnlyWhenEmpty ==
    [][(lastOp' = "SlashKey" /\ ~MenuOpen) =>
          IF VisibleText(ActiveBlock) = <<>>
          THEN menuPosition' # "null" /\ blocks' = blocks
          ELSE /\ menuPosition' = "null"
               /\ Len(VisibleText(blocks'[ActivePos])) =
                      Len(VisibleText(ActiveBlock)) + 1]_vars

DefaultContent(b) ==
    IF b.type = "todo" THEN b.content = Obj(<<>>, FALSE)
    ELSE b.content = Str(<<>>)

\* C24: selecting an entry of the menu opened on position i puts a fresh
\* block with a new identifier and the empty content of its type at i,
\* leaves the other blocks and the length as they were, makes the new block
\* active and closes the menu.
MenuSelectReplaces ==
    [][(lastOp' = "MenuSelect") =>
          LET i == targetIndex + 1
          IN  /\ ~crashed'
              /\ i \in 1..Len(blocks)
              /\ Len(blocks') = Len(blocks)
              /\ \A k \in DOMAIN blocks \ {i} : blocks'[k] = blocks[k]
              /\ IsBlock(blocks'[i])
              /\ \A k \in DOMAIN blocks : IdsOf(blocks)[k] # blocks'[i].id
              /\ DefaultContent(blocks'[i])
              /\ activeBlockId' = blocks'[i].id
              /\ menuPosition' = "null"
              /\ targetIndex' = NoIndex]_vars

\* C30: while the type menu is open its target index is a position of the
\* sequence, and it stays on the block on which '/' was pressed whatever
\* the keys and clicks that come before an entry is selected.
TargetStaysValid ==
    [][/\ MenuOpen' => (targetIndex' + 1) \in DOMAIN blocks'
       /\ (/\ MenuOpen /\ MenuOpen' /\ lastOp' # "SlashKey"
           /\ (targetIndex + 1) \in DOMAIN blocks
           /\ (targetIndex' + 1) \in DOMAIN blocks')
          => IdsOf(blocks')[targetIndex' + 1] = IdsOf(blocks)[targetIndex + 1]]_vars

\* ------------------------------------------------------------- indentation
\* where the line the caret is on begins: after the last newline before
\* the caret, or at 0
LineBegin(content, start) ==
    LET nl == {k \in 1..start : content[k] = Newline}
    IN  IF nl = {} THEN 0 ELSE CHOOSE k \in nl : \A j \in nl : j <= k

\* the text between the line's begin and the caret
BeforeCaret(content, start) ==
    SubSeq(content, LineBegin(content, start) + 1, start)

\* the number of spaces s begins with
LeadingSpaces(s) ==
    LET n == {k \in 0..Len(s) : \A j \in 1..k : s[j] = Space}
    IN  CHOOSE k \in n : \A j \in n : j <= k

\* content without the n characters that follow position at
Without(content, at, n) ==
    SubSeq(content, 1, at) \o SubSeq(content, at + n + 1, Len(content))

\* C25: Shift+Tab in a text block changes the content only when the text
\* from the line's begin to the caret begins with at least TAB_SIZE spaces:
\* it then takes exactly TAB_SIZE spaces off the line's begin and moves the
\* caret back by as many; otherwise content and caret stay as they are.
ShiftTabNeedsFullIndent ==
    [][(ShiftTabKey /\ selStart = selEnd) =>
          LET content == ActiveText
              ls == LineBegin(content, selStart)
          IN  IF LeadingSpaces(BeforeCaret(content, selStart)) >= TAB_SIZE
              THEN /\ ActiveText' = Without(content, ls, TAB_SIZE)
                   /\ selStart' = selStart - TAB_SIZE
              ELSE /\ ActiveText' = content
                   /\ selStart' = selStart]_vars

\* C26: Backspace with a collapsed caret in a text block deletes TAB_SIZE
\* spaces exactly when the text from the line's begin to the caret is a run
\* of spaces whose length is a positive multiple of TAB_SIZE; in every other
\* case, a non-space character before the caret on the line included, it
\* deletes one character.
BackspaceTabOnlyInIndent ==
    [][(BackspaceKey /\ ActiveIs("text") /\ selStart = selEnd /\ selStart > 0) =>
          LET content == ActiveText
              bc == BeforeCaret(content, selStart)
          IN  IF /\ LeadingSpaces(bc) = Len(bc)
                 /\ Len(bc) > 0
                 /\ Len(bc) % TAB_SIZE = 0
              THEN /\ ActiveText' = Without(content, selStart - TAB_SIZE, TAB_SIZE)
                   /\ selStart' = selStart - TAB_SIZE
              ELSE /\ ActiveText' = Without(content, selStart - 1, 1)
                   /\ selStart' = selStart - 1]_vars

\* -------------------------------------------------------------- updateBlock
\* the updated records an onChange can carry
Updates ==
    {Block(id, "text", Str(<<"x">>)) : id \in 1..(MaxIds + 1)}
        \cup {Block(id, "todo", Obj(<<"x">>, TRUE)) : id \in 1..(MaxIds + 1)}

\* C27: an update of a block by its id replaces only that block's record:
\* the length of the sequence, the order of the ids and every other block
\* are unchanged; an update whose id is not in the sequence changes nothing.
UpdateReplacesOnlyThatBlock ==
    [][lastOp' \in {"TextChange", "TodoTextChange", "TodoToggle"} =>
          /\ Len(blocks') = Len(blocks)
          /\ IdsOf(blocks') = IdsOf(blocks)
          /\ Cardinality({i \in DOMAIN blocks : blocks'[i] # blocks[i]}) <= 1
          /\ \A i \in DOMAIN blocks :
                 (blocks'[i] # blocks[i] /\ lastOp' # "TodoToggle") =>
                    blocks[i].id = activeBlockId
          /\ \A u \in Updates :
                 (\A i \in DOMAIN blocks : blocks[i].id # u.id) =>
                    updateBlockMap(blocks, u) = blocks]_vars

\* the first of two blocks edited, the second as it was loaded
UpdateReplacesOnlyThatBlockWitness ==
    /\ EditorMounted /\ lastOp = "TextChange"
    /\ blocks = <<Block(1, "text", Str(<<"x">>)), StoredBlock(2, 4)>>

\* ----------------------------------------------------------- onBlocksChange
\* C28: every mutation of the editor's sequence is followed by a notification
\* of the page that carries the whole sequence: while the editor is mounted
\* the note's content, and the note handed to the debounced save, hold the
\* editor's blocks.
PageHoldsEditorBlocks ==
    EditorMounted =>
        /\ note.content = blocks
        /\ lastSchedule.note.content = blocks

\* a block inserted after the default block of an empty note, then edited
PageHoldsEditorBlocksWitness ==
    /\ EditorMounted /\ lastOp = "TextChange"
    /\ Len(blocks) = 2 /\ Len(store[NoteId].arr) = 0
    /\ note.content = blocks

\* ---------------------------------------------------------------- TodoBlock
\* the todo a block's content stands for: the content when it is an object,
\* an empty unchecked todo when it is anything else
AsTodo(b) == IF b.content.shape = "object" THEN b.content ELSE Obj(<<>>, FALSE)

\* C29: a toggle of a todo's checkbox flips checked and leaves text; an edit
\* of its field sets text and leaves checked, in any order of the two; a
\* content that is not an object counts as {text: "", checked: false}.
TodoFieldsIndependent ==
    [][/\ \A i \in 1..(MaxBlocks + 1) :
             TodoToggle(i) =>
                blocks'[i].content =
                   Obj(AsTodo(blocks[i]).text, ~AsTodo(blocks[i]).checked)
       /\ \A value \in TodoTexts :
             TodoTextChange(value) =>
                blocks'[ActivePos].content =
                   Obj(value, AsTodo(ActiveBlock).checked)]_vars

\* the todo stored with a string content checked, the other edited and
\* checked
TodoFieldsIndependentWitness ==
    /\ EditorMounted
    /\ blocks[1].content = Obj(<<>>, TRUE)
    /\ blocks[2].content = Obj(<<"y">>, TRUE)

\* ------------------------------------------------------------------ isSaving
\* the PUTs of this note page whose answer saveNote still awaits
PagePuts == {r \in inflight : r.method = "PUT" /\ r.page /\ ~r.home}

\* C31: isSaving is true in every state in which a PUT sent by the note page
\* is still in flight, two overlapping saves included.
SavingWhilePutInFlight == PagePuts # {} => isSaving

\* --------------------------------------------------------------------- mount
\* C32: the editor's mount notifies the page with the initial blocks, so
\* with no edit at all one PUT, and only one, is sent SaveDelay after the
\* load; it carries the blocks, and once it is applied a note stored as a
\* string (or in any other form) is stored as the array of those blocks.
MountSavesOnce ==
    EditorMounted =>
        /\ lastSchedule.at >= 0
        /\ lastSchedule.note.content = blocks
        /\ IF putLog = <<>>
           THEN /\ Cardinality(timers) = 1
                /\ \A t \in timers :
                      /\ t.due = lastSchedule.at + SaveDelay
                      /\ t.note.content = blocks
                      /\ now <= t.due
           ELSE /\ Len(putLog) = 1
                /\ timers = {}
                /\ putLog[1].at = lastSchedule.at + SaveDelay
                /\ putLog[1].note.content = blocks
        /\ applied # 0 =>
              /\ store[NoteId].kind = "array"
              /\ store[NoteId].arr = JsonStringify(blocks)

\* a note stored as the string "x " is stored as one text block
MountSavesOnceWitness ==
    /\ EditorMounted /\ applied = 1
    /\ store[NoteId].kind = "array"
    /\ store[NoteId].arr = <<Block(1, "text", Str(<<"x", Space>>))>>

\* --------------------------------------------------------------------- error
\* C33: on the note page the error is absorbing: once a failed load or a
\* failed save has set it, no step of that page clears it and the editor is
\* not rendered again.
ErrorAbsorbing ==
    [][error # NoError => (error' # NoError /\ ~EditorMounted')]_vars

\* the save timer of an edit runs after an earlier save has failed
ErrorAbsorbingWitness ==
    /\ error = "Failed to save note"
    /\ lastOp = "TimerFire"
    /\ Len(putLog) = 2 /\ putLog[1].status = "fail"

====
